---- MODULE Spec2Model ----
(***************************************************************************)
(* A model of writingtoole/pdb: the PalmDoc LZ77 codec (lz77/lz77.go) and  *)
(* the PDB container reader/writer (pdb.go).  Bytes are the integers       *)
(* 0..255, byte slices are sequences, Go's 0-based indices are kept in the *)
(* operators' parameters and shifted by one where a sequence is indexed.   *)
(***************************************************************************)
EXTENDS Integers, Sequences, FiniteSets, TLC

VARIABLES
    pc,         \* the call that is running: "compress", "decompress", or "done"
    mode,       \* "roundtrip": Decompress(Compress(input)); "decode": Decompress(stream)
    input,      \* Compress: its argument data
    start,      \* Compress: the start of the block being compressed
    i,          \* compressBlock: the loop index
    ret,        \* compressBlock: the output of the block so far
    branch,     \* compressBlock: the encoding the last iteration chose
    token,      \* compressBlock: the bytes the last iteration appended
    compressed, \* Compress: its output so far
    stream,     \* Decompress: its argument data
    o,          \* Decompress: the loop index
    out,        \* Decompress: its output (ret) so far
    status,     \* Decompress: "running", or how it returned: "ok", "error", "panic"
    d,          \* pdb: the document as the caller built it
    p,          \* pdb: the Pdb that Validate and WriteFH work on
    verr,       \* pdb: what the caller's call of Validate returned
    werr,       \* pdb: what WriteFH returned
    fh,         \* pdb: the bytes WriteFH has written, the file ReadFH reads
    q,          \* pdb: the Pdb that ReadFH builds
    next,       \* pdb: readRecordMetadata's start, the offset of the chunk to read
    depth,      \* pdb: how many calls of readRecordMetadata are on the stack
    rerr        \* pdb: the error ReadFH returned

lzVars == <<mode, input, start, i, ret, branch, token, compressed, stream, o, out, status>>

pdbVars == <<d, p, verr, werr, fh, q, next, depth, rerr>>

vars == <<pc, lzVars, pdbVars>>

(***************************************************************************)
(* Bounds of the model.                                                    *)
(***************************************************************************)
\* longest buffer drawn exhaustively over CompressAlphabet
MaxInputLen == 5
\* longest stream drawn exhaustively over StreamAlphabet
MaxStreamLen == 4
\* longest buffer of period 1 or 2
MaxPeriodicLen == 24
\* how far the long buffers reach past one block
LongExtra == 5
\* most records of a document
MaxRecords == 2
\* how many nested calls of readRecordMetadata the stack holds
MaxDepth == 3
\* most entries of a record list of a file that is read
MaxIndexEntries == 2
\* how many bytes follow the record list of a file that is read
PayloadLen == 4

(***************************************************************************)
(* Bit arithmetic on non-negative integers, as Go's &, | and ^.            *)
(***************************************************************************)
RECURSIVE BitAnd(_, _)
BitAnd(x, y) ==
    IF x = 0 \/ y = 0 THEN 0
    ELSE 2 * BitAnd(x \div 2, y \div 2) + (IF x % 2 = 1 /\ y % 2 = 1 THEN 1 ELSE 0)

RECURSIVE BitOr(_, _)
BitOr(x, y) ==
    IF x = 0 THEN y
    ELSE IF y = 0 THEN x
    ELSE 2 * BitOr(x \div 2, y \div 2) + (IF x % 2 = 1 \/ y % 2 = 1 THEN 1 ELSE 0)

RECURSIVE BitXor(_, _)
BitXor(x, y) ==
    IF x = 0 THEN y
    ELSE IF y = 0 THEN x
    ELSE 2 * BitXor(x \div 2, y \div 2) + (IF x % 2 # y % 2 THEN 1 ELSE 0)

(***************************************************************************)
(* lz77.go                                                                 *)
(***************************************************************************)
\* the block size of Compress
BlockSize == 4096
\* the look-back window of findRun
WindowSize == 1024

\* data[from:to] of Go, 0-based and half-open
Slice(data, from, to) == SubSeq(data, from + 1, to)

\* the sequences over S of at most n elements
SeqsUpTo(S, n) == UNION {[1..k -> S] : k \in 0..n}

\* byteLiteral without the one-byte chunk that escapes a byte outside 0, 9..127
byteLiteralRaw(b) == <<b>>

byteLiteral(b) ==
    IF b = 0 THEN <<b>>
    ELSE IF b >= 9 /\ b <= 127 THEN <<b>>
    ELSE <<1, b>>

\* bytes.Index(s, sep): the 0-based index of the first instance of sep in s, or -1
MatchAt(s, sep, k) == \A j \in 1..Len(sep) : s[k + j] = sep[j]

\* the 0-based index of the last instance of sep in s, or -1
IndexLast(s, sep) ==
    LET last == Len(s) - Len(sep)
    IN  IF \E k \in 0..last : MatchAt(s, sep, k)
        THEN CHOOSE k \in 0..last :
                 MatchAt(s, sep, k) /\ \A j \in (k + 1)..last : ~MatchAt(s, sep, j)
        ELSE -1

Index(s, sep) ==
    LET last == Len(s) - Len(sep)
    IN  IF \E k \in 0..last : MatchAt(s, sep, k)
        THEN CHOOSE k \in 0..last :
                 MatchAt(s, sep, k) /\ \A j \in 0..(k - 1) : ~MatchAt(s, sep, j)
        ELSE -1

\* the for loop of findRun, entered with max, l and idx
RECURSIVE findRunLoop(_, _, _, _, _)
findRunLoop(data, seen, max, l, idx) ==
    IF ~(max < 11 /\ max <= Len(data)) THEN <<l, idx>>
    ELSE LET offset == Index(seen, Slice(data, 0, max))
         IN  IF offset = -1 THEN <<l, idx>>
             ELSE findRunLoop(data, seen, max + 1, max, Len(seen) - offset)

\* findRun searching all of seen, without the cap of WindowSize bytes
findRunWholeSeen(seen) == seen

\* the part of seen that findRun searches
findRunWindow(seen) ==
    IF Len(seen) > WindowSize
    THEN Slice(seen, Len(seen) - WindowSize, Len(seen))
    ELSE seen

\* findRun returns <<l, idx>>
findRun(data, seen) ==
    IF Len(data) < 3 THEN <<-1, -1>>
    ELSE findRunLoop(data, findRunWindow(seen), 3, -1, -1)

\* the two bytes of a back-reference to a run of l bytes, offset bytes back
runWord(offset, l) ==
    LET word == BitOr((offset * 8 + (l - 3)) % 65536, 32768)
    IN  <<word \div 256, BitAnd(word, 255)>>

\* one iteration of the for loop of compressBlock, entered with i < len(data):
\* the bytes it appends, the encoding it chose, and i after the loop's i++
compressIter(data, i_) ==
    IF i_ = Len(data) - 1
    THEN [token |-> byteLiteral(data[i_ + 1]), branch |-> "last", i |-> i_ + 1]
    ELSE LET run == findRun(Slice(data, i_, Len(data)), Slice(data, 0, i_))
             l == IF run[1] > 10 THEN 10 ELSE run[1]
             max == IF Len(data) - i_ > 8 THEN 8 ELSE Len(data) - i_
         IN  IF run[1] >= 3
             THEN [token |-> runWord(run[2], l), branch |-> "run",
                   i |-> i_ + (l - 1) + 1]
             ELSE IF data[i_ + 1] = 32 /\ data[i_ + 2] >= 64 /\ data[i_ + 2] <= 127
             THEN [token |-> <<BitXor(128, data[i_ + 2])>>, branch |-> "space",
                   i |-> i_ + 2]
             ELSE IF (data[i_ + 1] >= 9 /\ data[i_ + 1] <= 127) \/ data[i_ + 1] = 0
             THEN [token |-> <<data[i_ + 1]>>, branch |-> "literal", i |-> i_ + 1]
             ELSE [token |-> <<max>> \o Slice(data, i_, i_ + max), branch |-> "chunk",
                   i |-> i_ + (max - 1) + 1]

\* the end of the block that starts at start_: all of data when it is at most one
\* block long, else up to BlockSize bytes
blockEnd(data, start_) ==
    IF Len(data) <= BlockSize THEN Len(data)
    ELSE IF start_ + BlockSize > Len(data) THEN Len(data)
    ELSE start_ + BlockSize

\* the copy of a back-reference done as one block copy of ret[len-dist : len-dist+l],
\* which reads zero bytes past the end of ret instead of the bytes just copied
copyLoopBlock(ret_, dist, l, i_) ==
    [status |-> IF dist > Len(ret_) THEN "panic" ELSE "running",
     out |-> ret_ \o [k \in 1..l |-> IF k <= dist /\ dist <= Len(ret_)
                                      THEN ret_[Len(ret_) - dist + k] ELSE 0]]

\* the copy loop of a back-reference, entered with i_ and ret_; ret[idx] panics
\* when idx is out of range
RECURSIVE copyLoop(_, _, _, _)
copyLoop(ret_, dist, l, i_) ==
    IF ~(i_ < l) THEN [status |-> "running", out |-> ret_]
    ELSE LET idx == Len(ret_) - dist
         IN  IF idx < 0 \/ idx >= Len(ret_) THEN [status |-> "panic", out |-> ret_]
             ELSE copyLoop(Append(ret_, ret_[idx + 1]), dist, l, i_ + 1)

\* one iteration of the for loop of Decompress, entered with o < len(data): how
\* it leaves the loop body ("running": to the next iteration), o after the
\* loop's o++, and ret
decompressIter(data, o_, ret_) ==
    LET b == data[o_ + 1]
    IN  IF b = 0 THEN [status |-> "running", o |-> o_ + 1, out |-> Append(ret_, b)]
        ELSE IF b >= 1 /\ b <= 8
        THEN IF o_ + b + 1 > Len(data)
             THEN [status |-> "error", o |-> o_, out |-> ret_]
             ELSE [status |-> "running", o |-> o_ + b + 1,
                   out |-> ret_ \o Slice(data, o_ + 1, o_ + b + 1)]
        ELSE IF b >= 9 /\ b <= 127
        THEN [status |-> "running", o |-> o_ + 1, out |-> Append(ret_, b)]
        ELSE IF b >= 128 /\ b <= 191
        THEN IF o_ + 1 >= Len(data)
             THEN [status |-> "panic", o |-> o_ + 1, out |-> ret_]
             ELSE LET m == b * 256 + data[o_ + 2]
                      dist == BitAnd(m, 16383) \div 8
                      l == BitAnd(m, 7) + 3
                      copied == copyLoop(ret_, IF dist < 1 THEN 1 ELSE dist, l, 0)
                  IN  IF dist > Len(ret_)
                      THEN [status |-> "error", o |-> o_ + 1, out |-> ret_]
                      ELSE [status |-> copied.status,
                            o |-> IF copied.status = "running" THEN o_ + 2 ELSE o_ + 1,
                            out |-> copied.out]
        ELSE IF b >= 192
        THEN [status |-> "running", o |-> o_ + 1,
              out |-> Append(Append(ret_, 32), BitXor(b, 128))]
        ELSE [status |-> "error", o |-> o_, out |-> ret_]

(***************************************************************************)
(* pdb.go.  A uint32 or int64 of the code can exceed the integers of the   *)
(* model checker, so it is held as hi * 65536 + lo with lo in 0..65535: a  *)
(* uint32 has hi in 0..65535, an int64 may have a negative hi.             *)
(***************************************************************************)
W(n) == [hi |-> n \div 65536, lo |-> n % 65536]

WAdd(a, b) ==
    [hi |-> a.hi + b.hi + ((a.lo + b.lo) \div 65536), lo |-> (a.lo + b.lo) % 65536]

WSub(a, b) ==
    [hi |-> a.hi - b.hi + ((a.lo - b.lo) \div 65536), lo |-> (a.lo - b.lo) % 65536]

WLess(a, b) == a.hi < b.hi \/ (a.hi = b.hi /\ a.lo < b.lo)

\* the conversion uint32(x) of an int64 or an int
uint32(a) == [hi |-> a.hi % 65536, lo |-> a.lo]

\* a uint32 and a uint16 as binary.BigEndian writes them
BigEndian32(a) == <<a.hi \div 256, a.hi % 256, a.lo \div 256, a.lo % 256>>
BigEndian16(n) == <<n \div 256, n % 256>>

\* binary.BigEndian.Uint32 and Uint16 of the first bytes of b
Uint32(b) == [hi |-> b[1] * 256 + b[2], lo |-> b[3] * 256 + b[4]]
Uint16(b) == b[1] * 256 + b[2]

\* time.Time is held as its Unix seconds, an int64; the model's times are whole
\* seconds.  The zero time.Time{} is January 1, year 1: Unix second -62135596800
ZeroTime == [hi |-> -948114, lo |-> 2304]
IsZero(t) == t = ZeroTime

\* Base date for MOBI. Jan 1, 1904.
oldDateSecs == -2082844800
\* 1<<31 - 1
highTimeSecs == 2147483647

\* nil, the error that is none
nil == "nil"

checkTime(t, zeroOK) ==
    IF IsZero(t)
    THEN IF zeroOK THEN nil ELSE "Time value must not be zero"
    ELSE IF WLess(t, W(oldDateSecs)) \/ WLess(W(highTimeSecs), t)
    THEN "Time value out of range"
    ELSE nil

\* the loop of Validate over the records without the check for a unique id
\* seen before
RECURSIVE validateRecordsNoDuplicates(_, _, _)
validateRecordsNoDuplicates(records, k, ui) ==
    IF ~(k < Len(records)) THEN nil
    ELSE IF records[k + 1].UniqueID > 16777215 THEN "more than 24 bits of unique id"
    ELSE validateRecordsNoDuplicates(records, k + 1, ui)

\* the loop of Validate over the records, entered with index k (0-based) and
\* the unique ids seen
RECURSIVE validateRecords(_, _, _)
validateRecords(records, k, ui) ==
    IF ~(k < Len(records)) THEN nil
    ELSE IF records[k + 1].UniqueID > 16777215 THEN "more than 24 bits of unique id"
    ELSE IF records[k + 1].UniqueID \in ui THEN "same UniqueID"
    ELSE validateRecords(records, k + 1, ui \cup {records[k + 1].UniqueID})

Validate(p_) ==
    IF Len(p_.Creator) # 4 THEN "Creator name must be exactly 4 characters"
    ELSE IF Len(p_.Filetype) # 4 THEN "Filetype must be exactly 4 characters"
    ELSE IF checkTime(p_.CreateTime, FALSE) # nil THEN "Create time is invalid"
    ELSE IF checkTime(p_.ModTime, FALSE) # nil THEN "Modification time is invalid"
    ELSE IF checkTime(p_.BackupTime, TRUE) # nil THEN "Backup time is invalid"
    ELSE IF Len(p_.Name) > 32 THEN "Name too long"
    ELSE validateRecords(p_.Records, 0, {})

\* &Pdb{}: every field zero
EmptyPdb ==
    [Name |-> <<>>, Attributes |-> 0, Version |-> 0, Filetype |-> <<>>,
     Creator |-> <<>>, CreateTime |-> ZeroTime, ModTime |-> ZeroTime,
     BackupTime |-> ZeroTime, ModNum |-> W(0), UniqueIdSeed |-> W(0),
     recordCount |-> 0, Records |-> <<>>,
     appInfoOffset |-> W(0), appInfoEnd |-> W(0), AppInfo |-> <<>>,
     sortInfoOffset |-> W(0), sortInfoEnd |-> W(0), SortInfo |-> <<>>,
     totalSize |-> W(0)]

\* &Record{} with the public fields set
NewRecord(attribs, uniqueID, data) ==
    [offset |-> W(0), end |-> W(0), Attribs |-> attribs, UniqueID |-> uniqueID,
     Data |-> data]

\* no Pdb: the codec's runs have none
NoPdb == [Name |-> <<>>]

\* the loop of fixUpMetadata over the records without the check for a record
\* of size 0
RECURSIVE fixUpRecordsAnySize(_, _, _)
fixUpRecordsAnySize(records, k, totalSize) ==
    IF ~(k < Len(records)) THEN [err |-> nil, Records |-> records, totalSize |-> totalSize]
    ELSE fixUpRecordsAnySize(
             [records EXCEPT ![k + 1].offset = totalSize], k + 1,
             uint32(WAdd(totalSize, uint32(W(Len(records[k + 1].Data))))))

\* the loop of fixUpMetadata over the records, entered with index k (0-based)
\* and totalSize: the records with their offsets, totalSize, and the error
RECURSIVE fixUpRecords(_, _, _)
fixUpRecords(records, k, totalSize) ==
    IF ~(k < Len(records)) THEN [err |-> nil, Records |-> records, totalSize |-> totalSize]
    ELSE LET r == [records[k + 1] EXCEPT !.offset = totalSize]
             recs == [records EXCEPT ![k + 1] = r]
             size == uint32(WAdd(totalSize, uint32(W(Len(r.Data)))))
         IN  IF Len(r.Data) = 0
             THEN [err |-> "Record has a size of 0!", Records |-> recs, totalSize |-> size]
             ELSE fixUpRecords(recs, k + 1, size)

\* fixUpMetadata: the error it returns and the Pdb as it leaves it
fixUpMetadata(p_) ==
    IF Len(p_.Records) > 65535
    THEN [err |-> "records exceeds the maximum", p |-> p_]
    ELSE LET size0 == uint32(WAdd(W(72), W(6)))
             size1 == IF Len(p_.Records) = 0 THEN uint32(WAdd(size0, W(2))) ELSE size0
             size2 == uint32(WAdd(size1, uint32(W(Len(p_.Records) * 8))))
             sortOff == IF Len(p_.SortInfo) > 0 THEN size2 ELSE W(0)
             size3 == IF Len(p_.SortInfo) > 0
                      THEN uint32(WAdd(size2, uint32(W(Len(p_.SortInfo))))) ELSE size2
             appOff == IF Len(p_.AppInfo) > 0 THEN size3 ELSE W(0)
             size4 == IF Len(p_.AppInfo) > 0
                      THEN uint32(WAdd(size3, uint32(W(Len(p_.AppInfo))))) ELSE size3
             fixed == fixUpRecords(p_.Records, 0, size4)
             p1 == [p_ EXCEPT !.sortInfoOffset = sortOff, !.appInfoOffset = appOff,
                              !.Records = fixed.Records]
         IN  IF fixed.err # nil THEN [err |-> fixed.err, p |-> p1]
             ELSE IF WLess(W(2147483647), fixed.totalSize)
             THEN [err |-> "Total filesize exceeds max of 2G", p |-> p1]
             ELSE [err |-> nil, p |-> p1]

\* copy(h.Name[:], p.Name): the first 32 bytes of the name, zero-padded to 32
headerName(name) == [k \in 1..32 |-> IF k <= Len(name) THEN name[k] ELSE 0]

\* the bytes writeHeader writes: the header struct, big-endian
writeHeader(p_) ==
    headerName(p_.Name)
    \o BigEndian16(p_.Attributes)
    \o BigEndian16(p_.Version)
    \o BigEndian32(uint32(p_.CreateTime))
    \o BigEndian32(uint32(p_.ModTime))
    \o BigEndian32(uint32(p_.BackupTime))
    \o BigEndian32(p_.ModNum)
    \o BigEndian32(p_.appInfoOffset)
    \o BigEndian32(p_.sortInfoOffset)
    \o Slice(p_.Filetype, 0, 4)
    \o Slice(p_.Creator, 0, 4)
    \o BigEndian32(p_.UniqueIdSeed)

\* uint32(r.Attribs)<<24 + (r.UniqueID & 0xffffff), big-endian: the int8's two's
\* complement byte, then the low 24 bits of the unique id
recordAttr(r) ==
    <<r.Attribs % 256, (r.UniqueID \div 65536) % 256, (r.UniqueID \div 256) % 256,
      r.UniqueID % 256>>

\* the loop of writeRecordMetadata over the records, from index k (0-based)
RECURSIVE writeRecordEntries(_, _)
writeRecordEntries(records, k) ==
    IF ~(k < Len(records)) THEN <<>>
    ELSE BigEndian32(records[k + 1].offset) \o recordAttr(records[k + 1])
         \o writeRecordEntries(records, k + 1)

\* writeRecordMetadata writing the two bytes of pad whatever the number of records
writeRecordMetadataAlwaysPad(p_) ==
    <<0, 0, 0, 0>>
    \o BigEndian16(Len(p_.Records) % 65536)
    \o <<0, 0>>
    \o writeRecordEntries(p_.Records, 0)

\* the bytes writeRecordMetadata writes
writeRecordMetadata(p_) ==
    <<0, 0, 0, 0>>
    \o BigEndian16(Len(p_.Records) % 65536)
    \o (IF Len(p_.Records) % 65536 = 0 THEN <<0, 0>> ELSE <<>>)
    \o writeRecordEntries(p_.Records, 0)

\* the bytes writeMetadata writes
writeMetadata(p_) == p_.AppInfo \o p_.SortInfo

\* the bytes writeRecords writes: the loop over the records, from index k
RECURSIVE writeRecords(_, _)
writeRecords(records, k) ==
    IF ~(k < Len(records)) THEN <<>>
    ELSE records[k + 1].Data \o writeRecords(records, k + 1)

\* readTime
readTime(rawTime) ==
    IF rawTime = W(0) THEN ZeroTime
    ELSE IF rawTime.hi < 32768 THEN rawTime
    ELSE WAdd(rawTime, W(oldDateSecs))

\* the bytes a read of n bytes gets from file at offset pos (a uint32 or int64):
\* fewer than n, or none, when the file ends first
ReadAt(file, pos, n) ==
    IF pos.hi # 0 \/ pos.lo >= Len(file) THEN <<>>
    ELSE Slice(file, pos.lo, IF pos.lo + n > Len(file) THEN Len(file) ELSE pos.lo + n)

\* the name of the header: the 32 bytes up to the first NUL
trimName(n) ==
    IF \E k \in 1..Len(n) : n[k] = 0
    THEN Slice(n, 0, (CHOOSE k \in 1..Len(n) : n[k] = 0 /\ \A j \in 1..(k - 1) : n[j] # 0) - 1)
    ELSE n

\* readHeader on a Pdb p_: the error, and the Pdb with the header's fields
readHeader(p_, file) ==
    LET h == ReadAt(file, W(0), 72)
    IN  IF Len(h) < 72 THEN [err |-> "EOF", p |-> p_]
        ELSE [err |-> nil,
              p |-> [p_ EXCEPT !.Name = trimName(Slice(h, 0, 32)),
                               !.Attributes = Uint16(Slice(h, 32, 34)),
                               !.Version = Uint16(Slice(h, 34, 36)),
                               !.CreateTime = readTime(Uint32(Slice(h, 36, 40))),
                               !.ModTime = readTime(Uint32(Slice(h, 40, 44))),
                               !.BackupTime = readTime(Uint32(Slice(h, 44, 48))),
                               !.ModNum = Uint32(Slice(h, 48, 52)),
                               !.appInfoOffset = Uint32(Slice(h, 52, 56)),
                               !.sortInfoOffset = Uint32(Slice(h, 56, 60)),
                               !.Filetype = Slice(h, 60, 64),
                               !.Creator = Slice(h, 64, 68),
                               !.UniqueIdSeed = Uint32(Slice(h, 68, 72))]]

\* the Record of an 8-byte entry ri of the record list
readRecordEntry(ri) ==
    [offset |-> Uint32(ri), end |-> W(0),
     Attribs |-> IF ri[5] >= 128 THEN ri[5] - 256 ELSE ri[5],
     UniqueID |-> ri[6] * 65536 + ri[7] * 256 + ri[8],
     Data |-> <<>>]

\* the loop of readRecordMetadata over the recs entries that follow the 6-byte
\* header at start, from entry k on: the error, and the records appended
RECURSIVE readRecordEntries(_, _, _, _, _)
readRecordEntries(file, start_, recs, k, records) ==
    IF ~(k < recs) THEN [err |-> nil, Records |-> records]
    ELSE LET ri == ReadAt(file, WAdd(start_, W(6 + 8 * k)), 8)
         IN  IF Len(ri) < 8 THEN [err |-> "EOF", Records |-> records]
             ELSE readRecordEntries(file, start_, recs, k + 1,
                                    Append(records, readRecordEntry(ri)))

\* one call of readRecordMetadata up to its recursive call: the 6-byte header is
\* read with the error of the read ignored, so that the bytes the file does not
\* have stay zero; the error, the Pdb, and nextOffset
readRecordMetadata(p_, start_, file) ==
    LET got == ReadAt(file, start_, 6)
        header == [k \in 1..6 |-> IF k <= Len(got) THEN got[k] ELSE 0]
        nextOffset == Uint32(Slice(header, 0, 4))
        recs == Uint16(Slice(header, 4, 6))
        read == readRecordEntries(file, start_, recs, 0, p_.Records)
    IN  IF read.err # nil
        THEN [err |-> read.err, p |-> [p_ EXCEPT !.Records = read.Records],
              nextOffset |-> nextOffset]
        ELSE [err |-> nil,
              p |-> [p_ EXCEPT !.Records = read.Records,
                               !.recordCount = p_.recordCount + recs],
              nextOffset |-> nextOffset]

\* the orders sort.Slice may leave the records in: the permutations of their
\* indices along which the offsets do not decrease (the sort is not stable)
SortedOrders(records) ==
    {r \in [1..Len(records) -> 1..Len(records)] :
        /\ \A a, b \in 1..Len(records) : a # b => r[a] # r[b]
        /\ \A a \in 1..(Len(records) - 1) :
               ~WLess(records[r[a + 1]].offset, records[r[a]].offset)}

\* the loop of updateRecordSizes over the sorted records r, from index k
\* (0-based) on, p_ holding the records and the ends of the info areas
RECURSIVE updateRecordSizesLoop(_, _, _)
updateRecordSizesLoop(p_, r, k) ==
    IF ~(k < Len(r)) THEN p_
    ELSE LET rec == p_.Records[r[k + 1]]
             end0 == IF k < Len(r) - 1
                     THEN uint32(WSub(p_.Records[r[k + 2]].offset, W(1)))
                     ELSE uint32(WSub(p_.totalSize, W(1)))
             end1 == IF WLess(rec.offset, p_.sortInfoOffset) /\ WLess(p_.sortInfoOffset, end0)
                     THEN uint32(WSub(p_.sortInfoOffset, W(1))) ELSE end0
             end2 == IF WLess(rec.offset, p_.appInfoOffset) /\ WLess(p_.appInfoOffset, end1)
                     THEN uint32(WSub(p_.appInfoOffset, W(1))) ELSE end1
             appEnd == IF WLess(rec.offset, p_.appInfoEnd) /\ WLess(p_.appInfoOffset, rec.offset)
                       THEN uint32(WSub(rec.offset, W(1))) ELSE p_.appInfoEnd
             sortEnd == IF WLess(rec.offset, p_.sortInfoEnd) /\ WLess(p_.sortInfoOffset, rec.offset)
                        THEN uint32(WSub(rec.offset, W(1))) ELSE p_.sortInfoEnd
         IN  updateRecordSizesLoop(
                 [p_ EXCEPT !.Records[r[k + 1]].end = end2,
                            !.appInfoEnd = appEnd, !.sortInfoEnd = sortEnd],
                 r, k + 1)

\* updateRecordSizes, r being the sorted copy of the records
updateRecordSizes(p_, r) ==
    LET p1 == [p_ EXCEPT
                  !.appInfoEnd = IF WLess(W(0), p_.appInfoOffset)
                                 THEN uint32(WSub(p_.totalSize, W(1))) ELSE @,
                  !.sortInfoEnd = IF WLess(W(0), p_.sortInfoOffset)
                                  THEN uint32(WSub(p_.totalSize, W(1))) ELSE @]
        p2 == updateRecordSizesLoop(p1, r, 0)
        p3 == [p2 EXCEPT
                  !.sortInfoEnd = IF WLess(p2.sortInfoOffset, p2.appInfoOffset)
                                     /\ WLess(p2.appInfoOffset, p2.sortInfoEnd)
                                  THEN uint32(WSub(p2.appInfoOffset, W(1))) ELSE @]
    IN  [p3 EXCEPT
            !.appInfoEnd = IF WLess(p3.appInfoOffset, p3.sortInfoOffset)
                              /\ WLess(p3.sortInfoOffset, p3.appInfoEnd)
                           THEN uint32(WSub(p3.sortInfoOffset, W(1))) ELSE @]

\* the loop of readRecordData over the records, from index k (0-based) on: the
\* error and the records with their data.  l is int(r.end - r.offset + 1); a
\* read of 0 bytes succeeds, a read the file cannot fill fails
RECURSIVE readRecordData(_, _, _)
readRecordData(records, k, file) ==
    IF ~(k < Len(records)) THEN [err |-> nil, Records |-> records]
    ELSE LET r == records[k + 1]
             l == uint32(WAdd(uint32(WSub(r.end, r.offset)), W(1)))
             b == IF l.hi # 0 THEN <<>> ELSE ReadAt(file, r.offset, l.lo)
         IN  IF l.hi # 0 \/ Len(b) < l.lo THEN [err |-> "EOF", Records |-> records]
             ELSE readRecordData([records EXCEPT ![k + 1].Data = b], k + 1, file)

(***************************************************************************)
(* The documents the container is run on.                                  *)
(***************************************************************************)
Bytes(n, b) == [k \in 1..n |-> b]

\* names of 0, 2, 32 and 33 bytes
Names == {<<>>, <<65, 108>>, Bytes(32, 78), Bytes(33, 78)}

\* four-character codes of 3, 4 and 5 bytes
Filetypes == {<<66, 79, 79>>, <<66, 79, 79, 75>>, <<66, 79, 79, 75, 83>>}
Creators == {<<77, 79, 66>>, <<77, 79, 66, 73>>, <<77, 79, 66, 73, 33>>}

\* the zero time; the second before 1904; 1904; the second before 1970; 1970;
\* 2018-11-01 05:01:05 UTC; the last second of 1<<31 - 1; the second after it
CreateTimes ==
    {ZeroTime, W(oldDateSecs - 1), W(oldDateSecs), W(-1), W(0), W(1541048465),
     W(highTimeSecs), WAdd(W(highTimeSecs), W(1))}

ModTimes == {ZeroTime, W(-86400), W(1541048466)}

BackupTimes == {ZeroTime, W(1541048465), WAdd(W(highTimeSecs), W(1))}

\* what time.Now() may return
Clock == {W(1541048470)}

\* a Pdb as a caller builds it: the public fields set, the others zero
NewPdb(name, filetype, creator, create, mod, backup, records, appInfo, sortInfo) ==
    [EmptyPdb EXCEPT !.Name = name, !.Attributes = 258, !.Version = 1,
                     !.Filetype = filetype, !.Creator = creator,
                     !.CreateTime = create, !.ModTime = mod, !.BackupTime = backup,
                     !.ModNum = W(7), !.UniqueIdSeed = [hi |-> 65535, lo |-> 65534],
                     !.Records = records, !.AppInfo = appInfo, !.SortInfo = sortInfo]

\* records: two that are valid, one with empty data, one with a unique id of 25 bits
RecordChoices ==
    { NewRecord(0, 1, <<7>>), NewRecord(-1, 16777215, <<8, 9>>),
      NewRecord(0, 2, <<>>), NewRecord(64, 16777216, <<7>>) }

RecordLists == SeqsUpTo(RecordChoices, MaxRecords)

InfoBlobs == {<<>>, <<1>>, <<2, 3>>}

\* every header over a document of no record or one
HeaderDocs ==
    {NewPdb(n, f, c, ct, mt, bt, rs, <<>>, <<>>) :
        n \in Names, f \in Filetypes, c \in Creators, ct \in CreateTimes,
        mt \in ModTimes, bt \in BackupTimes,
        rs \in {<<>>, <<NewRecord(0, 1, <<7>>)>>}}

\* every list of records and every pair of info blobs under a valid header
BodyDocs ==
    {NewPdb(<<65, 108>>, <<66, 79, 79, 75>>, <<77, 79, 66, 73>>, ct, W(1541048466), bt,
            rs, a, s) :
        ct \in {W(-1), W(1541048465)}, bt \in {ZeroTime, W(1541048465)},
        rs \in RecordLists, a \in InfoBlobs, s \in InfoBlobs}

Docs == HeaderDocs \cup BodyDocs

(***************************************************************************)
(* The state machine of the container: a caller builds a document and      *)
(* calls Validate, or calls WriteFH, whose steps are taken one at a time,  *)
(* and then ReadFH on the bytes written.                                   *)
(***************************************************************************)
InitPdb ==
    /\ pc = "start"
    /\ d \in Docs
    /\ p = d
    /\ verr = "none" /\ werr = "none" /\ rerr = "none"
    /\ fh = <<>>
    /\ q = NoPdb
    /\ next = W(0) /\ depth = 0
    /\ mode = "pdb" /\ input = <<>> /\ start = 0 /\ i = 0 /\ ret = <<>>
    /\ branch = "none" /\ token = <<>> /\ compressed = <<>> /\ stream = <<>>
    /\ o = 0 /\ out = <<>> /\ status = "none"

\* the caller calls Validate
CallValidate ==
    /\ pc = "start"
    /\ verr' = Validate(p)
    /\ pc' = "validated"
    /\ UNCHANGED <<d, p, werr, fh, q, next, depth, rerr>>
    /\ UNCHANGED lzVars

\* WriteFH: the zero times are set to time.Now(), and Validate is called
WriteFHValidate ==
    /\ pc = "start"
    /\ \E t \in Clock :
          p' = [p EXCEPT !.CreateTime = IF IsZero(@) THEN t ELSE @,
                         !.ModTime = IF IsZero(@) THEN t ELSE @]
    /\ werr' = IF Validate(p') # nil THEN Validate(p') ELSE "none"
    /\ pc' = IF Validate(p') # nil THEN "writeFailed" ELSE "fixUpMetadata"
    /\ UNCHANGED <<d, verr, fh, q, next, depth, rerr>>
    /\ UNCHANGED lzVars

\* WriteFH writing the header before it calls fixUpMetadata
WriteFHFixUpAfterHeader ==
    /\ pc = "fixUpMetadata"
    /\ fh' = fh \o writeHeader(p)
    /\ LET fixed == fixUpMetadata(p)
       IN  /\ p' = fixed.p
           /\ werr' = IF fixed.err # nil THEN fixed.err ELSE "none"
           /\ pc' = IF fixed.err # nil THEN "writeFailed" ELSE "writeRecordMetadata"
    /\ UNCHANGED <<d, verr, q, next, depth, rerr>>
    /\ UNCHANGED lzVars

\* WriteFH: fixUpMetadata is called
WriteFHFixUp ==
    /\ pc = "fixUpMetadata"
    /\ LET fixed == fixUpMetadata(p)
       IN  /\ p' = fixed.p
           /\ werr' = IF fixed.err # nil THEN fixed.err ELSE "none"
           /\ pc' = IF fixed.err # nil THEN "writeFailed" ELSE "writeHeader"
    /\ UNCHANGED <<d, verr, fh, q, next, depth, rerr>>
    /\ UNCHANGED lzVars

\* WriteFH: writeHeader is called
WriteFHHeader ==
    /\ pc = "writeHeader"
    /\ fh' = fh \o writeHeader(p)
    /\ pc' = "writeRecordMetadata"
    /\ UNCHANGED <<d, p, verr, werr, q, next, depth, rerr>>
    /\ UNCHANGED lzVars

\* WriteFH: writeRecordMetadata is called
WriteFHRecordMetadata ==
    /\ pc = "writeRecordMetadata"
    /\ fh' = fh \o writeRecordMetadata(p)
    /\ pc' = "writeMetadata"
    /\ UNCHANGED <<d, p, verr, werr, q, next, depth, rerr>>
    /\ UNCHANGED lzVars

\* WriteFH: writeMetadata is called
WriteFHMetadata ==
    /\ pc = "writeMetadata"
    /\ fh' = fh \o writeMetadata(p)
    /\ pc' = "writeRecords"
    /\ UNCHANGED <<d, p, verr, werr, q, next, depth, rerr>>
    /\ UNCHANGED lzVars

\* WriteFH: writeRecords is called, and WriteFH returns nil
WriteFHRecords ==
    /\ pc = "writeRecords"
    /\ fh' = fh \o writeRecords(p.Records, 0)
    /\ werr' = nil
    /\ pc' = "written"
    /\ UNCHANGED <<d, p, verr, q, next, depth, rerr>>
    /\ UNCHANGED lzVars

\* ReadFH: the size of the file is taken and readHeader is called
ReadFHHeader ==
    /\ pc \in {"written", "opened"}
    /\ LET read == readHeader([EmptyPdb EXCEPT !.totalSize = W(Len(fh))], fh)
       IN  /\ q' = IF read.err # nil THEN NoPdb ELSE read.p
           /\ rerr' = IF read.err # nil THEN read.err ELSE "none"
           /\ pc' = IF read.err # nil THEN "readFailed" ELSE "readRecordMetadata"
    /\ next' = W(72)
    /\ depth' = 0
    /\ UNCHANGED <<d, p, verr, werr, fh>>
    /\ UNCHANGED lzVars

\* ReadFH: readRecordMetadata reads the chunk at next, and calls itself when
\* the chunk names another; a call the stack has no room for ends the program
\* with a fatal stack overflow
ReadFHRecordMetadata ==
    /\ pc = "readRecordMetadata"
    /\ LET read == readRecordMetadata(q, next, fh)
       IN  /\ q' = IF read.err # nil THEN NoPdb ELSE read.p
           /\ rerr' = IF read.err # nil THEN read.err ELSE "none"
           /\ pc' = IF read.err # nil THEN "readFailed"
                    ELSE IF WLess(W(0), read.nextOffset)
                    THEN (IF depth + 1 < MaxDepth THEN "readRecordMetadata" ELSE "fatal")
                    ELSE "updateRecordSizes"
           /\ next' = read.nextOffset
    /\ depth' = depth + 1
    /\ UNCHANGED <<d, p, verr, werr, fh>>
    /\ UNCHANGED lzVars

\* ReadFH: updateRecordSizes is called
ReadFHUpdateRecordSizes ==
    /\ pc = "updateRecordSizes"
    /\ \E r \in SortedOrders(q.Records) : q' = updateRecordSizes(q, r)
    /\ pc' = "readRecordData"
    /\ UNCHANGED <<d, p, verr, werr, fh, next, depth, rerr>>
    /\ UNCHANGED lzVars

\* ReadFH: readRecordData is called, and ReadFH returns the Pdb or the error
ReadFHRecordData ==
    /\ pc = "readRecordData"
    /\ LET read == readRecordData(q.Records, 0, fh)
       IN  /\ q' = IF read.err # nil THEN NoPdb ELSE [q EXCEPT !.Records = read.Records]
           /\ rerr' = read.err
           /\ pc' = IF read.err # nil THEN "readFailed" ELSE "read"
    /\ UNCHANGED <<d, p, verr, werr, fh, next, depth>>
    /\ UNCHANGED lzVars

NextPdb ==
    \/ CallValidate
    \/ WriteFHValidate
    \/ WriteFHFixUp
    \/ WriteFHHeader
    \/ WriteFHRecordMetadata
    \/ WriteFHMetadata
    \/ WriteFHRecords
    \/ ReadFHHeader
    \/ ReadFHRecordMetadata
    \/ ReadFHUpdateRecordSizes
    \/ ReadFHRecordData

SpecPdb == InitPdb /\ [][NextPdb]_vars

(***************************************************************************)
(* The files ReadFH is run on when they do not come from WriteFH: a header *)
(* of 72 bytes, the chunks of the record list one after the other from     *)
(* offset 72, and PayloadLen bytes.                                        *)
(***************************************************************************)
\* the 72 bytes of a header with the two info offsets
HeaderBytes(appInfoOffset, sortInfoOffset) ==
    writeHeader([NewPdb(<<65, 108>>, <<66, 79, 79, 75>>, <<77, 79, 66, 73>>,
                        W(1541048465), W(1541048466), W(1541048465), <<>>, <<>>, <<>>)
                    EXCEPT !.appInfoOffset = appInfoOffset,
                           !.sortInfoOffset = sortInfoOffset])

\* a chunk of the record list: the offset of the next chunk, the number of
\* entries, and the entry of 8 bytes of each record
Chunk(nextOffset, records) ==
    BigEndian32(nextOffset) \o BigEndian16(Len(records)) \o writeRecordEntries(records, 0)

\* a record as its entry lists it
Entry(offset, uniqueID) == [NewRecord(0, uniqueID, <<>>) EXCEPT !.offset = W(offset)]

Payload == [k \in 1..PayloadLen |-> 10 + k]

\* the unique ids of n entries: all different, or all the same
UniqueIDLists(n) == {[k \in 1..n |-> k], [k \in 1..n |-> 1]}

\* files of one chunk of n entries: every offset from the first byte after the
\* record list to the size of the file, and info offsets of zero or inside
\* the payload
OneChunkFiles(n) ==
    LET base == 78 + 8 * n
        infos == {W(0)} \cup {W(base + k) : k \in 1..(PayloadLen - 1)}
    IN  {HeaderBytes(a, s)
         \o Chunk(W(0), [k \in 1..n |-> Entry(offs[k], uids[k])])
         \o Payload :
            offs \in [1..n -> base..(base + PayloadLen)],
            uids \in UniqueIDLists(n), a \in infos, s \in infos}

\* a well-formed file of MaxIndexEntries records of one byte, cut at every length
TruncatedFiles ==
    LET n == MaxIndexEntries
        file == HeaderBytes(W(0), W(0))
                \o Chunk(W(0), [k \in 1..n |-> Entry(78 + 8 * n + k - 1, k)])
                \o [k \in 1..n |-> 10 + k]
    IN  {Slice(file, 0, k) : k \in 0..Len(file)}

\* files of two chunks of at most one entry each, the first naming itself or
\* the second as the next, the second naming none, the first or itself
ChainedFiles ==
    {HeaderBytes(W(0), W(0))
     \o Chunk(IF self1 THEN W(72) ELSE W(78 + 8 * n1),
              [k \in 1..n1 |-> Entry(84 + 8 * (n1 + n2), 1)])
     \o Chunk(CASE next2 = "none" -> W(0)
                [] next2 = "first" -> W(72)
                [] next2 = "self" -> W(78 + 8 * n1),
              [k \in 1..n2 |-> Entry(84 + 8 * (n1 + n2) + 1, 2)])
     \o Payload :
        self1 \in BOOLEAN, n1 \in 0..1, n2 \in 0..1,
        next2 \in {"none", "first", "self"}}

Files ==
    UNION {OneChunkFiles(n) : n \in 0..MaxIndexEntries}
    \cup TruncatedFiles \cup ChainedFiles

(***************************************************************************)
(* The state machine of ReadFH on a given file.                            *)
(***************************************************************************)
\* ReadFH is called on one of files
ReadFrom(files) ==
    /\ pc = "opened"
    /\ fh \in files
    /\ d = NoPdb /\ p = NoPdb /\ q = NoPdb
    /\ verr = "none" /\ werr = "none" /\ rerr = "none"
    /\ next = W(0) /\ depth = 0
    /\ mode = "read" /\ input = <<>> /\ start = 0 /\ i = 0 /\ ret = <<>>
    /\ branch = "none" /\ token = <<>> /\ compressed = <<>> /\ stream = <<>>
    /\ o = 0 /\ out = <<>> /\ status = "none"

InitRead == ReadFrom(Files)

NextRead ==
    \/ ReadFHHeader
    \/ ReadFHRecordMetadata
    \/ ReadFHUpdateRecordSizes
    \/ ReadFHRecordData

SpecRead == InitRead /\ [][NextRead]_vars

\* ReadFH on the files whose record list is cut or chained; the call runs on,
\* step after step, until it returns or the program ends
InitReadChain == ReadFrom(ChainedFiles \cup TruncatedFiles)

SpecReadChain == InitReadChain /\ [][NextRead]_vars /\ WF_vars(NextRead)

(***************************************************************************)
(* The buffers the codec is run on.                                        *)
(***************************************************************************)
\* one byte of each class compressBlock tells apart: NUL, a byte that needs a
\* literal chunk, space, a printable that pairs with space, a high byte
CompressAlphabet == {0, 1, 32, 65, 200}

ShortInputs == SeqsUpTo(CompressAlphabet, MaxInputLen)

\* the first n bytes of pattern p repeated for ever
Periodic(pat, n) == [k \in 1..n |-> pat[((k - 1) % Len(pat)) + 1]]

\* buffers of period 1 or 2, long enough for runs of every length 3..10
PeriodicInputs ==
    {Periodic(pat, n) : pat \in SeqsUpTo(CompressAlphabet, 2) \ {<<>>},
                      n \in (MaxInputLen + 1)..MaxPeriodicLen}

\* buffers that reach past the look-back window of findRun and past one block:
\* one byte repeated; a 3-byte run whose only earlier instance is WindowSize + 1
\* bytes back, and another whose earlier instance is just inside the window;
\* a period-5 buffer of all byte classes, longer than a block
LongInputs ==
    { Periodic(<<65>>, BlockSize + LongExtra),
      <<65, 66, 67>> \o Periodic(<<0, 200>>, WindowSize - 2) \o <<65, 66, 67, 1>>,
      <<65, 66, 67>> \o Periodic(<<0, 200>>, WindowSize - 3) \o <<65, 66, 67, 1>>,
      Periodic(<<1, 32, 65, 200, 0>>, BlockSize + LongExtra) }

Inputs == ShortInputs \cup PeriodicInputs \cup LongInputs

\* one leading byte of each token, and second bytes of back-references
StreamAlphabet == {0, 2, 8, 17, 65, 128, 197}

\* the compressed buffers of TestDecompress
TestStreams ==
    { <<>>, <<64, 80, 96>>, <<197>>, <<5, 1, 2, 3, 4, 5>>,
      <<97, 98, 99, 100, 101, 102, 128, 41>>,
      <<97, 98, 99, 100, 128, 17>>,
      <<97, 98, 128, 14>> }

Streams == SeqsUpTo(StreamAlphabet, MaxStreamLen) \cup TestStreams

(***************************************************************************)
(* The state machine of the codec.  In mode "roundtrip" a buffer is        *)
(* compressed, one iteration of compressBlock's loop at a time, and the    *)
(* result is handed to Decompress; in mode "decode" Decompress runs on a   *)
(* stream of any bytes, one iteration of its loop at a time.               *)
(***************************************************************************)
InitLZ77 ==
    /\ \/ mode = "roundtrip" /\ pc = "compress" /\ input \in Inputs /\ stream = <<>>
       \/ mode = "decode" /\ pc = "decompress" /\ input = <<>> /\ stream \in Streams
    /\ start = 0
    /\ i = 0
    /\ ret = <<>>
    /\ branch = "none"
    /\ token = <<>>
    /\ compressed = <<>>
    /\ o = 0
    /\ out = <<>>
    /\ status = "running"
    /\ d = NoPdb /\ p = NoPdb /\ q = NoPdb
    /\ verr = "none" /\ werr = "none" /\ rerr = "none"
    /\ fh = <<>>
    /\ next = W(0) /\ depth = 0

\* the block compressBlock is working on
block == Slice(input, start, blockEnd(input, start))

\* compressBlock: one iteration of its loop
CompressStep ==
    /\ pc = "compress"
    /\ i < Len(block)
    /\ LET it == compressIter(block, i)
       IN  /\ i' = it.i
           /\ ret' = ret \o it.token
           /\ branch' = it.branch
           /\ token' = it.token
    /\ UNCHANGED <<pc, mode, input, start, compressed, stream, o, out, status>>
    /\ UNCHANGED pdbVars

\* compressBlock returns ret, Compress appends it and goes on to the next block
CompressNextBlock ==
    /\ pc = "compress"
    /\ ~(i < Len(block))
    /\ Len(input) > BlockSize
    /\ start + BlockSize < Len(input)
    /\ compressed' = compressed \o ret
    /\ start' = start + BlockSize
    /\ i' = 0
    /\ ret' = <<>>
    /\ branch' = "none"
    /\ token' = <<>>
    /\ UNCHANGED <<pc, mode, input, stream, o, out, status>>
    /\ UNCHANGED pdbVars

\* compressBlock returns ret for the last block, Compress returns, and its
\* result is handed to Decompress
CompressReturn ==
    /\ pc = "compress"
    /\ ~(i < Len(block))
    /\ ~(Len(input) > BlockSize /\ start + BlockSize < Len(input))
    /\ compressed' = IF Len(input) <= BlockSize THEN ret ELSE compressed \o ret
    /\ stream' = compressed'
    /\ pc' = "decompress"
    /\ UNCHANGED <<mode, input, start, i, ret, branch, token, o, out, status>>
    /\ UNCHANGED pdbVars

\* Decompress: one iteration of its loop
DecompressStep ==
    /\ pc = "decompress"
    /\ o < Len(stream)
    /\ LET it == decompressIter(stream, o, out)
       IN  /\ o' = it.o
           /\ out' = it.out
           /\ status' = it.status
           /\ pc' = IF it.status = "running" THEN "decompress" ELSE "done"
    /\ UNCHANGED <<mode, input, start, i, ret, branch, token, compressed, stream>>
    /\ UNCHANGED pdbVars

\* Decompress: the loop ends and ret is returned with a nil error
DecompressReturn ==
    /\ pc = "decompress"
    /\ ~(o < Len(stream))
    /\ status' = "ok"
    /\ pc' = "done"
    /\ UNCHANGED <<mode, input, start, i, ret, branch, token, compressed, stream, o, out>>
    /\ UNCHANGED pdbVars

NextLZ77 ==
    \/ CompressStep
    \/ CompressNextBlock
    \/ CompressReturn
    \/ DecompressStep
    \/ DecompressReturn

SpecLZ77 == InitLZ77 /\ [][NextLZ77]_vars

(***************************************************************************)
(* Claims about the codec, checked under SpecLZ77.                         *)
(***************************************************************************)
\* the distance and the length a two-byte back-reference token encodes, by the
\* wire format: w = (b << 8) | next, distance = (w >> 3) & 0x7FF, length = (w & 7) + 3
tokenWord(t) == t[1] * 256 + t[2]
tokenDistance(t) == (tokenWord(t) \div 8) % 2048
tokenLength(t) == (tokenWord(t) % 8) + 3

\* C1: for every buffer b, Decompress(Compress(b)) returns exactly b with no
\* error: when the round trip is done, Decompress returned ok and its output is
\* the buffer Compress was given.
C1_RoundTrip ==
    (mode = "roundtrip" /\ pc = "done") => (status = "ok" /\ out = input)

\* C1's case: a buffer longer than one block, with bytes outside 0x09..0x7F, has
\* been compressed and decompressed, and back-references were emitted for it.
C1_Witness ==
    /\ mode = "roundtrip" /\ pc = "done"
    /\ Len(input) > BlockSize
    /\ \E k \in 1..Len(input) : input[k] > 127
    /\ Len(compressed) < Len(input)
    /\ out = input

\* C3: every back-reference token Compress emits is two bytes with a leading
\* byte in 0x80..0xBF, encodes a distance in 1..1024 and a length in 3..10; and
\* no token of another encoding starts with a byte in 0x80..0xBF.
C3_BackReferenceBounds ==
    /\ branch = "run" =>
          /\ Len(token) = 2
          /\ token[1] >= 128 /\ token[1] <= 191
          /\ token[2] >= 0 /\ token[2] <= 255
          /\ tokenDistance(token) >= 1 /\ tokenDistance(token) <= 1024
          /\ tokenLength(token) >= 3 /\ tokenLength(token) <= 10
    /\ branch \in {"last", "space", "literal", "chunk"} =>
          ~(token[1] >= 128 /\ token[1] <= 191)

\* C3's case: a back-reference of the greatest distance and the greatest length
\* has been emitted, after more than a window of input.
C3_Witness ==
    /\ pc = "compress" /\ branch = "run"
    /\ i > WindowSize
    /\ tokenDistance(token) = 1024
    /\ tokenLength(token) = 10

\* whether the tokens of data, split by the lengths of the wire format from
\* position pos on, end with a back-reference leading byte that has no second byte
RECURSIVE EndsInLoneLeadingByte(_, _)
EndsInLoneLeadingByte(data, pos) ==
    IF pos >= Len(data) THEN FALSE
    ELSE LET b == data[pos + 1]
         IN  IF b >= 1 /\ b <= 8 THEN EndsInLoneLeadingByte(data, pos + 1 + b)
             ELSE IF b >= 128 /\ b <= 191
             THEN pos + 1 = Len(data) \/ EndsInLoneLeadingByte(data, pos + 2)
             ELSE EndsInLoneLeadingByte(data, pos + 1)

\* C4: whenever the input ends immediately after a back-reference leading byte
\* in 0x80..0xBF, Decompress returns a decode error (an error value, not output
\* and not a fault).
C4_TruncatedBackReferenceIsError ==
    (mode = "decode" /\ pc = "done" /\ EndsInLoneLeadingByte(stream, 0))
        => status = "error"

\* the step of the wire-format table for the token at o, when the token is
\* complete and, for a back-reference, its distance is within 1..len(out)
tableToken(b) ==
    /\ b = 0 =>
          /\ out' = out \o <<0>>
          /\ o' = o + 1
    /\ (b >= 1 /\ b <= 8) =>
          /\ out' = out \o SubSeq(stream, o + 2, o + 1 + b)
          /\ o' = o + 1 + b
    /\ (b >= 9 /\ b <= 127) =>
          /\ out' = out \o <<b>>
          /\ o' = o + 1
    /\ (b >= 128 /\ b <= 191) =>
          LET w == b * 256 + stream[o + 2]
              distance == (w \div 8) % 2048
              length == (w % 8) + 3
          IN  /\ Len(out') = Len(out) + length
              /\ SubSeq(out', 1, Len(out)) = out
              /\ \A k \in (Len(out) + 1)..(Len(out) + length) :
                     out'[k] = out'[k - distance]
              /\ o' = o + 2
    /\ b >= 192 =>
          /\ out' = out \o <<32, b - 128>>
          /\ o' = o + 1

\* whether the token at o is complete and, for a back-reference, its distance
\* is within 1..len(out)
wellFormedToken ==
    LET b == stream[o + 1]
    IN  /\ (b >= 1 /\ b <= 8) => o + 1 + b <= Len(stream)
        /\ (b >= 128 /\ b <= 191) =>
              /\ o + 2 <= Len(stream)
              /\ ((b * 256 + stream[o + 2]) \div 8) % 2048 >= 1
              /\ ((b * 256 + stream[o + 2]) \div 8) % 2048 <= Len(out)

\* C5: Decompress decodes a well-formed stream token by token as the wire-format
\* table defines: every iteration of its loop on a well-formed token consumes
\* the token, appends what the table says and goes on without an error; the
\* bytes a back-reference appends each equal the output byte distance before it.
C5_DecodesByTable ==
    [][(pc = "decompress" /\ o < Len(stream) /\ wellFormedToken)
          => (tableToken(stream[o + 1]) /\ status' = "running" /\ pc' = "decompress")]_vars

\* C5's case: a back-reference of distance 1 and length 9 has been decoded, its
\* bytes repeating the byte before it (the last stream of TestDecompress).
C5_Witness ==
    /\ mode = "decode" /\ pc = "done" /\ status = "ok"
    /\ stream = <<97, 98, 128, 14>>
    /\ out = <<97, 98, 98, 98, 98, 98, 98, 98, 98, 98, 98>>

(***************************************************************************)
(* Claims about the container, checked under SpecPdb.                      *)
(***************************************************************************)
\* a time, in Unix seconds, within [1904-01-01 00:00:00, 2038-01-19 03:14:07) UTC
InRange(t) == ~WLess(t, W(-2082844800)) /\ WLess(t, W(2147483647))

HasDuplicateUniqueID(doc) ==
    \E a, b \in 1..Len(doc.Records) :
        a # b /\ doc.Records[a].UniqueID = doc.Records[b].UniqueID

HasWideUniqueID(doc) == \E a \in 1..Len(doc.Records) : doc.Records[a].UniqueID > 16777215

HasEmptyRecord(doc) == \E a \in 1..Len(doc.Records) : doc.Records[a].Data = <<>>

\* what C6 lists: a filetype or creator not of 4 bytes, a name of more than 32,
\* a zero create_time or mod_time, a shared unique_id, a unique_id over 0xFFFFFF
ViolatesListed(doc) ==
    \/ Len(doc.Filetype) # 4
    \/ Len(doc.Creator) # 4
    \/ Len(doc.Name) > 32
    \/ IsZero(doc.CreateTime)
    \/ IsZero(doc.ModTime)
    \/ HasDuplicateUniqueID(doc)
    \/ HasWideUniqueID(doc)

TimesInRange(doc) ==
    /\ InRange(doc.CreateTime)
    /\ InRange(doc.ModTime)
    /\ IsZero(doc.BackupTime) \/ InRange(doc.BackupTime)

\* C6: Validate returns an error for every document that violates one of the
\* listed invariants, and success for a document that violates none of them and
\* whose timestamps are in range.
C6_ValidateHeaderAndIds ==
    pc = "validated" =>
        /\ ViolatesListed(d) => verr # nil
        /\ (~ViolatesListed(d) /\ TimesInRange(d)) => verr = nil

\* C6's case: Validate has rejected a document whose header is valid and whose
\* two records share a unique_id.
C6_Witness ==
    /\ pc = "validated" /\ verr = "same UniqueID"
    /\ Len(d.Filetype) = 4 /\ Len(d.Creator) = 4 /\ Len(d.Name) <= 32
    /\ TimesInRange(d)
    /\ Len(d.Records) = 2 /\ HasDuplicateUniqueID(d) /\ ~HasWideUniqueID(d)

\* C7 as claimed: Validate returns an error for every document that contains a
\* record whose data is empty.
C7_ValidateRejectsEmptyRecord ==
    (pc = "validated" /\ HasEmptyRecord(d)) => verr # nil

\* C7 as amended: WriteFH rejects every document that contains a record whose
\* data is empty: it never gets past fixUpMetadata, writes no byte, and returns
\* an error.
C7_WriteFHRejectsEmptyRecord ==
    HasEmptyRecord(d) =>
        /\ pc \in {"start", "validated", "fixUpMetadata", "writeFailed"}
        /\ fh = <<>>
        /\ pc = "writeFailed" => werr \notin {nil, "none"}

\* C7's case: WriteFH has failed in fixUpMetadata, after Validate accepted the
\* document, because of a record of size 0.
C7_Witness ==
    /\ pc = "writeFailed" /\ werr = "Record has a size of 0!"
    /\ HasEmptyRecord(d) /\ Validate(p) = nil
    /\ fh = <<>>

\* the raw 32-bit words of the header WriteFH wrote
rawCreate == Uint32(Slice(fh, 36, 40))
rawModified == Uint32(Slice(fh, 40, 44))
rawAppInfoOffset == Uint32(Slice(fh, 52, 56))
rawSortInfoOffset == Uint32(Slice(fh, 56, 60))

\* C8: for every document WriteFH accepts, the raw create_time and mod_time
\* words have the high bit clear and decode, by readTime, to the instants of the
\* document's fields (a time before 1970 being rejected by validation).
C8_TimesWrittenAsUnixSeconds ==
    pc = "written" =>
        /\ rawCreate.hi < 32768 /\ readTime(rawCreate) = p.CreateTime
        /\ rawModified.hi < 32768 /\ readTime(rawModified) = p.ModTime

\* C9: in every stream WriteFH emits, a non-empty app_info is the bytes at
\* app_info_offset and a non-empty sort_info the bytes at sort_info_offset, the
\* offsets being those of the emitted header.
C9_InfoBlobsAtTheirOffsets ==
    pc = "written" =>
        /\ p.AppInfo # <<>> =>
              ReadAt(fh, rawAppInfoOffset, Len(p.AppInfo)) = p.AppInfo
        /\ p.SortInfo # <<>> =>
              ReadAt(fh, rawSortInfoOffset, Len(p.SortInfo)) = p.SortInfo

\* the bytes of file from offset from through offset to
Span(file, from, to) ==
    IF WLess(to, from) THEN <<>>
    ELSE ReadAt(file, from, WSub(to, from).lo + 1)

\* C10: after a successful ReadFH of a file whose header has a non-zero
\* app_info_offset (sort_info_offset), the document's app_info (sort_info) is
\* the file's bytes from that offset through the recovered end; it is empty
\* only when the offset is zero.
C10_InfoBlobsRead ==
    pc = "read" =>
        /\ q.appInfoOffset # W(0) =>
              (q.AppInfo = Span(fh, q.appInfoOffset, q.appInfoEnd) /\ q.AppInfo # <<>>)
        /\ q.sortInfoOffset # W(0) =>
              (q.SortInfo = Span(fh, q.sortInfoOffset, q.sortInfoEnd) /\ q.SortInfo # <<>>)

\* the public fields of a record and of a document
PublicRecord(r) == [Attribs |-> r.Attribs, UniqueID |-> r.UniqueID, Data |-> r.Data]

Public(doc) ==
    [Name |-> doc.Name, Attributes |-> doc.Attributes, Version |-> doc.Version,
     Filetype |-> doc.Filetype, Creator |-> doc.Creator,
     CreateTime |-> doc.CreateTime, ModTime |-> doc.ModTime,
     BackupTime |-> doc.BackupTime, ModNum |-> doc.ModNum,
     UniqueIdSeed |-> doc.UniqueIdSeed, AppInfo |-> doc.AppInfo,
     SortInfo |-> doc.SortInfo,
     Records |-> [k \in 1..Len(doc.Records) |-> PublicRecord(doc.Records[k])]]

\* C2: for every document d that passes validation and has only non-empty
\* records, WriteFH succeeds, ReadFH of the bytes succeeds, and the document
\* read equals d in every public field.
C2_WriteReadRoundTrip ==
    (Validate(d) = nil /\ ~HasEmptyRecord(d)) =>
        /\ pc \notin {"writeFailed", "readFailed"}
        /\ pc = "read" => Public(q) = Public(d)

(***************************************************************************)
(* Claims about ReadFH on any file, checked under SpecRead.                *)
(***************************************************************************)
\* C11: every record of a document that ReadFH returns has at least one byte
\* of data, and no two of its records have the same offset.
C11_ReadRecordsNonEmptyAndApart ==
    pc = "read" =>
        /\ \A a \in 1..Len(q.Records) : Len(q.Records[a].Data) >= 1
        /\ \A a, b \in 1..Len(q.Records) :
               a # b => q.Records[a].offset # q.Records[b].offset

\* C12: the unique ids of the records of a document that ReadFH returns are
\* pairwise distinct, and each is at most 0xFFFFFF.
C12_ReadUniqueIDsDistinct ==
    pc = "read" =>
        /\ ~HasDuplicateUniqueID(q)
        /\ ~HasWideUniqueID(q)

\* the file holds the whole of the chunk at offset at: its 6 bytes of header and
\* the 8 bytes of each entry the header counts
ChunkComplete(file, at) ==
    /\ at.hi = 0
    /\ at.lo + 6 <= Len(file)
    /\ at.lo + 6 + 8 * Uint16(Slice(file, at.lo + 4, at.lo + 6)) <= Len(file)

\* the file holds the whole of every chunk of the list that starts at offset
\* at, as far as k chunks after it
RECURSIVE ChainComplete(_, _, _)
ChainComplete(file, at, k) ==
    /\ ChunkComplete(file, at)
    /\ LET nextOffset == Uint32(Slice(file, at.lo, at.lo + 4))
       IN  (k > 0 /\ nextOffset # W(0)) => ChainComplete(file, nextOffset, k - 1)

\* C13: ReadFH returns a document only for a file that holds, at the offset of
\* every chunk of the record list, the 6 bytes of the chunk's header and all
\* the entries it counts.
C13_TruncatedRecordListRejected ==
    pc = "read" => ChainComplete(fh, W(72), MaxDepth)

(***************************************************************************)
(* Claims about the bytes WriteFH writes, checked under SpecPdb.           *)
(***************************************************************************)
\* C14: WriteFH has written no byte while validation and the fix-up of the
\* offsets have not both succeeded, so none when it fails in either; and
\* whenever it has written a byte, the first 72 are the header, with the info
\* offsets the fix-up computes.
C14_NoByteBeforeFixUp ==
    /\ pc \in {"start", "validated", "fixUpMetadata", "writeFailed"} => fh = <<>>
    /\ fh # <<>> =>
          /\ Validate(p) = nil /\ fixUpMetadata(p).err = nil
          /\ Len(fh) >= 72 /\ Slice(fh, 0, 72) = writeHeader(p)
          /\ rawAppInfoOffset = fixUpMetadata(p).p.appInfoOffset
          /\ rawSortInfoOffset = fixUpMetadata(p).p.sortInfoOffset

\* C14's case: the header is all WriteFH has written, and its two info offsets
\* are the non-zero ones of a document with both blobs and two records.
C14_Witness ==
    /\ pc = "writeRecordMetadata" /\ Len(fh) = 72
    /\ Len(p.Records) = 2
    /\ rawSortInfoOffset = W(94) /\ rawAppInfoOffset = WAdd(W(94), W(Len(p.SortInfo)))
    /\ p.SortInfo # <<>> /\ p.AppInfo # <<>>

rawBackup == Uint32(Slice(fh, 44, 48))

\* C15: WriteFH writes the zero backup_time as the raw word 0, and ReadFH of
\* the bytes gives the zero backup_time again.
C15_ZeroBackupTimeWrittenAsZero ==
    (Len(fh) >= 72 /\ IsZero(p.BackupTime)) =>
        /\ rawBackup = W(0)
        /\ pc = "read" => IsZero(q.BackupTime)

\* the bytes of data of the first k records
RECURSIVE DataLen(_, _)
DataLen(records, k) == IF k = 0 THEN 0 ELSE DataLen(records, k - 1) + Len(records[k].Data)

\* where the data of record k (from 1) starts: after the header, the record
\* list, the pad of a list of no record, the two blobs and the records before
DataStart(doc, k) ==
    72 + 6 + 8 * Len(doc.Records) + (IF Len(doc.Records) = 0 THEN 2 ELSE 0)
    + Len(doc.SortInfo) + Len(doc.AppInfo) + DataLen(doc.Records, k - 1)

\* the offset in entry k (from 1) of the record list that was written
rawOffset(k) == Uint32(Slice(fh, 78 + 8 * (k - 1), 82 + 8 * (k - 1)))

\* C16: in the bytes of a successful WriteFH the offset in each record's entry
\* is where the record's data starts, the data of the records follow one
\* another with increasing offsets, the two bytes of pad are there exactly when
\* there is no record, and the number of bytes is the computed total size.
C16_OffsetsMatchLayout ==
    pc = "written" =>
        LET n == Len(p.Records)
        IN  /\ Uint16(Slice(fh, 76, 78)) = n
            /\ \A k \in 1..n :
                  /\ rawOffset(k) = W(DataStart(p, k))
                  /\ ReadAt(fh, rawOffset(k), Len(p.Records[k].Data)) = p.Records[k].Data
            /\ \A k \in 1..(n - 1) :
                  /\ WLess(rawOffset(k), rawOffset(k + 1))
                  /\ rawOffset(k + 1) = WAdd(rawOffset(k), W(Len(p.Records[k].Data)))
            /\ n = 0 => Slice(fh, 78, 80) = <<0, 0>>
            /\ Len(fh) = DataStart(p, n + 1)

\* C16's case: WriteFH has written a document of two records and both blobs.
C16_Witness ==
    /\ pc = "written" /\ werr = nil
    /\ Len(p.Records) = 2 /\ p.AppInfo = <<1>> /\ p.SortInfo = <<2, 3>>
    /\ rawOffset(1) = W(97) /\ rawOffset(2) = WAdd(W(97), W(Len(p.Records[1].Data)))

(***************************************************************************)
(* Claims about the recovery of the record sizes, checked under SpecRead.  *)
(***************************************************************************)
\* the least element of a non-empty set of integers
Min(S) == CHOOSE x \in S : \A y \in S : x <= y

\* the offsets of the records of doc are pairwise distinct and all less than
\* the size of the file
OffsetsApartAndInside(doc) ==
    /\ \A a \in 1..Len(doc.Records) : WLess(doc.Records[a].offset, doc.totalSize)
    /\ \A a, b \in 1..Len(doc.Records) :
           a # b => doc.Records[a].offset # doc.Records[b].offset

\* the end of record a before truncation: one before the next offset in offset
\* order, or the last byte of the file
UntruncatedEnd(doc, a) ==
    LET later == {doc.Records[b].offset.lo : b \in 1..Len(doc.Records)} \cap
                 {x \in 0..doc.totalSize.lo : x > doc.Records[a].offset.lo}
    IN  IF later = {} THEN doc.totalSize.lo - 1 ELSE Min(later) - 1

\* the non-zero info offsets after the start of record a and up to its
\* untruncated end
InfoOffsetsInside(doc, a) ==
    {x \in {doc.appInfoOffset.lo, doc.sortInfoOffset.lo} :
        x # 0 /\ doc.Records[a].offset.lo < x /\ x <= UntruncatedEnd(doc, a)}

\* the end of record a once truncated before the first info offset inside it
RecoveredEnd(doc, a) ==
    IF InfoOffsetsInside(doc, a) = {} THEN UntruncatedEnd(doc, a)
    ELSE Min(InfoOffsetsInside(doc, a)) - 1

\* C17: after updateRecordSizes on a file whose record offsets are distinct
\* and inside the file, each record ends one byte before the next offset (the
\* last at the end of the file), truncated before any non-zero info offset
\* that lies after its start and up to that end, so that no span holds an info
\* offset, and no two spans overlap.
C17_RecoveredSpans ==
    (pc = "readRecordData" /\ OffsetsApartAndInside(q)) =>
        /\ \A a \in 1..Len(q.Records) :
               /\ q.Records[a].end = W(RecoveredEnd(q, a))
               /\ \A x \in {q.appInfoOffset, q.sortInfoOffset} :
                      ~(x # W(0) /\ WLess(q.Records[a].offset, x)
                        /\ ~WLess(q.Records[a].end, x))
        /\ \A a, b \in 1..Len(q.Records) :
               a # b => (\/ WLess(q.Records[a].end, q.Records[b].offset)
                         \/ WLess(q.Records[b].end, q.Records[a].offset))

(***************************************************************************)
(* Claims about the end of ReadFH, checked under SpecReadChain.            *)
(***************************************************************************)
\* C19: ReadFH ends on every file, returning a document or an error, also when
\* the chunks of the record list name each other in a cycle.
C19_ReadFHTerminates == <>(pc \in {"read", "readFailed"})

(***************************************************************************)
(* Claims about findRun and about the copies of Decompress, checked under  *)
(* SpecLZ77.  findRun is looked at in every call compressBlock makes of    *)
(* it: on the rest of the block, block[i:], and what is before, block[0:i].*)
(***************************************************************************)
runData == Slice(block, i, Len(block))
runSeen == Slice(block, 0, i)

\* the last WindowSize bytes of seen
LastBytes(seen) ==
    [k \in 1..(IF Len(seen) > 1024 THEN 1024 ELSE Len(seen)) |->
        seen[k + (IF Len(seen) > 1024 THEN Len(seen) - 1024 ELSE 0)]]

\* where data[0:L] occurs wholly inside window: the 0-based starts
Occurrences(data, window, L) ==
    {k \in 0..(Len(window) - L) : \A j \in 1..L : window[k + j] = data[j]}

\* the lengths 3..min(10, len(data)) of which data[0:L] occurs inside window
RunLengths(data, window) ==
    {L \in 3..(IF Len(data) < 10 THEN Len(data) ELSE 10) :
        Occurrences(data, window, L) # {}}

Max(S) == CHOOSE x \in S : \A y \in S : x >= y

\* C18 as claimed: findRun returns the greatest length of 3..min(10, len(data))
\* of which data[0:L] occurs in the last 1024 bytes of seen, with the distance
\* from the end of seen back to the start of the rightmost occurrence, or
\* (-1, -1) when there is none.
C18_FindRunRightmost ==
    (pc = "compress" /\ i < Len(block)) =>
        LET window == LastBytes(runSeen)
            lengths == RunLengths(runData, window)
        IN  IF lengths = {} THEN findRun(runData, runSeen) = <<-1, -1>>
            ELSE findRun(runData, runSeen) =
                     <<Max(lengths),
                       Len(window) - Max(Occurrences(runData, window, Max(lengths)))>>

\* C18 as amended: the same, with the distance back to the start of the
\* leftmost occurrence.
C18_FindRunLeftmost ==
    (pc = "compress" /\ i < Len(block)) =>
        LET window == LastBytes(runSeen)
            lengths == RunLengths(runData, window)
        IN  IF lengths = {} THEN findRun(runData, runSeen) = <<-1, -1>>
            ELSE findRun(runData, runSeen) =
                     <<Max(lengths),
                       Len(window) - Min(Occurrences(runData, window, Max(lengths)))>>

\* C18's case: findRun is called where the longest run, of 10 bytes, occurs
\* more than once in what was seen, and returns the distance to the leftmost.
C18_Witness ==
    /\ pc = "compress" /\ i + 10 <= Len(block)
    /\ LET window == LastBytes(runSeen)
           found == Occurrences(runData, window, 10)
       IN  /\ Cardinality(found) > 1
           /\ findRun(runData, runSeen) = <<10, Len(window) - Min(found)>>

\* C20: on a stream whose back-references all have their two bytes, Decompress
\* never reads, in a back-reference copy, outside the output it holds (which in
\* Go is a panic), also for a distance of 0 and an empty output; and a
\* back-reference that opens the stream with a distance of 1 or more, more
\* than the empty output holds, is a decode error.
C20_CopyReadsInsideOutput ==
    (mode = "decode" /\ ~EndsInLoneLeadingByte(stream, 0)) =>
        /\ status # "panic"
        /\ (pc = "done" /\ Len(stream) >= 2 /\ stream[1] \in 128..191
            /\ tokenDistance(<<stream[1], stream[2]>>) >= 1) => status = "error"

====
